---- MODULE Spec2Model ----
(***************************************************************************)
(* Model of the rule no-restricted-properties                              *)
(* (src/lib/rules/no-restricted-properties.js and src/unnamed/part_000).   *)
(*                                                                         *)
(* The sources hold three revisions of the rule.  The named file holds two *)
(* of them one after the other: revision 1 (lines 15-215: helper `fun`,    *)
(* visitor keys MemberExpression, VariableDeclarator, AssignmentExpression,*)
(* AssignmentPattern, ArrowFunctionExpression) and revision 2 (lines       *)
(* 231-417: helper `getMatchingProperties`, visitor keys MemberExpression, *)
(* ObjectPattern).  Revision 3 is src/unnamed/part_000 (visitor keys       *)
(* MemberExpression, VariableDeclarator, AssignmentExpression,             *)
(* AssignmentPattern): its handlers call checkPropertyAccess once for each *)
(* property, with the bare property name.  The variable `revision` says    *)
(* which of the three `create` functions made the active rule instance.    *)
(*                                                                         *)
(* JavaScript values: `undefined` and `null` are the sentinels Undefined   *)
(* and Null; a value that may be undefined/false/null, a string, an object *)
(* or an array is a tagged record [tag, items]; a Map is a TLA+ function   *)
(* whose DOMAIN is the key set.                                            *)
(***************************************************************************)
EXTENDS Integers, Sequences, FiniteSets, TLC

\* ---------------------------------------------------------------- bounds
MaxEntries == 2     \* longest configured option list
MaxProps == 2       \* most elements in one object pattern
MaxParams == 1      \* most parameters of one arrow function

\* ------------------------------------------------------- JavaScript values
Undefined == "<undefined>"
Null == "<null>"

JsUndefined == [tag |-> "undefined", items |-> <<>>]
JsFalse == [tag |-> "false", items |-> <<>>]
JsNull == [tag |-> "null", items |-> <<>>]
JsArray(s) == [tag |-> "array", items |-> s]
JsObject(o) == [tag |-> "object", items |-> <<o>>]
\* a property name handed over bare: a string, or null
JsName(x) == IF x = Null THEN JsNull ELSE [tag |-> "string", items |-> <<x>>]

\* JavaScript truthiness of a tagged value (an object or an array, even an empty
\* one, is truthy; the strings that occur are never tested)
Truthy(v) == v.tag \in {"array", "object"}

EmptyMap == [k \in {} |-> Undefined]
MapHas(m, k) == k \in DOMAIN m
MapSet(m, k, v) == [x \in (DOMAIN m) \cup {k} |-> IF x = k THEN v ELSE m[x]]
\* Map.prototype.get: the stored object, or undefined
MapGet(m, k) == IF MapHas(m, k) THEN JsObject(m[k]) ELSE JsUndefined

\* ------------------------------------------------------------ input domains
Names == {"foo", "bar"}
Props == {"a", "b"}
Messages == {Undefined, "m1"}

\* one configured entry; the schema requires `object` or `property`
Entries ==
    {e \in [object : Names \cup {Undefined},
            property : Props \cup {Undefined},
            message : Messages] :
        ~(e.object = Undefined /\ e.property = Undefined)}

\* the rule treats object and property names as opaque Map keys, so option lists
\* are taken up to renaming: the first object a list names is "foo" and the first
\* property it names is "a" (the visited nodes range over all names)
FirstNamed(s, field, name) ==
    \A i \in DOMAIN s :
        (s[i][field] # Undefined /\ \A j \in 1..(i - 1) : s[j][field] = Undefined)
            => s[i][field] = name

\* option lists the schema admits (uniqueItems: true)
OptionLists ==
    {s \in UNION {[1..n -> Entries] : n \in 0..MaxEntries} :
        /\ \A i, j \in DOMAIN s : i # j => s[i] # s[j]
        /\ FirstNamed(s, "object", "foo")
        /\ FirstNamed(s, "property", "a")}

\* expressions: a bare identifier, another expression, or no node (null)
Identifier(n) == [type |-> "Identifier", name |-> n, properties |-> <<>>]
OtherExpression == [type |-> "CallExpression", name |-> Undefined, properties |-> <<>>]
NoNode == [type |-> "null", name |-> Undefined, properties |-> <<>>]
Expressions == {Identifier(n) : n \in Names} \cup {OtherExpression}

\* elements of an object pattern: `{a}`, `{b}`, `{[a]: x}`, `{...rest}`
PatternElements ==
    [type : {"Property"}, computed : {FALSE}, key : Props]
        \cup {[type |-> "Property", computed |-> TRUE, key |-> "a"]}
        \cup {[type |-> "RestElement", computed |-> FALSE, key |-> Undefined]}
PatternsUpTo(n) == UNION {[1..k -> PatternElements] : k \in 0..n}
ObjectPatternNode(ps) == [type |-> "ObjectPattern", name |-> Undefined, properties |-> ps]
ObjectPatterns == {ObjectPatternNode(ps) : ps \in PatternsUpTo(MaxProps)}
Targets == ObjectPatterns \cup {Identifier("x")}

\* `foo.a`, `foo[a]`, `foo["a"]`, and the same on a non-identifier object
MemberNodes ==
    {m \in [object : Expressions, computed : BOOLEAN,
            property : [type : {"Identifier", "Literal"}, name : Props]] :
        m.property.type = "Literal" => m.computed}
\* every target with an identifier source; the short targets with the others
Identifiers == {Identifier(n) : n \in Names}
ShortTargets == {ObjectPatternNode(ps) : ps \in PatternsUpTo(1)} \cup {Identifier("x")}
VariableDeclaratorNodes ==
    [id : Targets, init : Identifiers]
        \cup [id : ShortTargets, init : {OtherExpression, NoNode}]
AssignmentNodes ==
    [left : Targets, right : Identifiers]
        \cup [left : ShortTargets, right : {OtherExpression}]
\* an assignment pattern (a default value, `function f({a} = foo) {}`) runs the
\* same checkDestructuringAssignment; it is visited with the short targets
AssignmentPatternNodes == [left : ShortTargets, right : Expressions]
ArrowParams ==
    {Identifier("x")}
        \cup {ObjectPatternNode(ps) : ps \in PatternsUpTo(1)}
ArrowNodes == UNION {[1..k -> ArrowParams] : k \in 0..MaxParams}
ParentNodes ==
    [type : {"VariableDeclarator"}, init : Expressions \cup {NoNode}, right : {NoNode}]
        \cup [type : {"AssignmentExpression", "AssignmentPattern"},
              init : {NoNode}, right : Expressions]
        \cup [type : {"ArrowFunctionExpression"}, init : {NoNode}, right : {NoNode}]

\* ------------------------------------------------------------------- state
VARIABLES
    options,                        \* context.options
    revision,                       \* which `create` of the sources is active
    pc,                             \* "loaded", "traversing", "returned", "crashed"
    handlers,                       \* keys of the object `create` returned
    restrictedProperties,           \* Map objectName -> Map propertyName -> {message}
    globallyRestrictedObjects,      \* Map objectName -> {message}
    globallyRestrictedProperties,   \* Map propertyName -> {message}
    visit,                          \* the handler call just made: its node (for
                                    \* ObjectPattern with its parent, for an arrow
                                    \* function its params) and what it extracted
                                    \* (in revision 3, propertyName lists the names
                                    \* of its checkPropertyAccess calls, in order)
    reports,                        \* context.report calls of that handler call
    thrown                          \* that handler call ended in a TypeError

vars == <<options, revision, pc, handlers, restrictedProperties,
          globallyRestrictedObjects, globallyRestrictedProperties,
          visit, reports, thrown>>

NoVisit ==
    [handler |-> "none", called |-> FALSE, objectName |-> Undefined,
     propertyName |-> JsUndefined, sourceType |-> "none", targetType |-> "none",
     parentType |-> "none", node |-> NoNode]


NoMaps == [rp |-> EmptyMap, gro |-> EmptyMap, grp |-> EmptyMap]

\* ------------------------------------------------ astUtils (not in src/)
\* static name of a member access or of a pattern property: null when the
\* key is computed and not a literal
getStaticPropertyName(computed, keyType, keyName) ==
    IF computed /\ keyType # "Literal" THEN Null ELSE keyName

\* the same for one element of an object pattern; a rest element has no name
getStaticPropertyNameOf(property) ==
    IF property.type = "Property"
    THEN getStaticPropertyName(property.computed, "Identifier", property.key)
    ELSE Null

\* revision 3 calls astUtils.anotherOne(property) for the elements of a
\* declared pattern: the statically known name of the pattern property
anotherOne(property) == getStaticPropertyNameOf(property)

RECURSIVE getAllProperties(_)
\* names of all properties of an object pattern, in order; a rest element
\* contributes none
getAllProperties(properties) ==
    IF properties = <<>> THEN <<>>
    ELSE LET p == Head(properties)
             rest == getAllProperties(Tail(properties))
         IN IF p.type = "Property"
            THEN <<getStaticPropertyName(p.computed, "Identifier", p.key)>> \o rest
            ELSE rest

\* ----------------------------------------------------------------- create
\* variant: a key that is already present is not overwritten
setOptionKeepFirst(maps, option) ==
    LET objectName == option.object
        propertyName == option.property
        value == [message |-> option.message]
    IN IF objectName = Undefined
       THEN IF MapHas(maps.grp, propertyName) THEN maps
            ELSE [maps EXCEPT !.grp = MapSet(maps.grp, propertyName, value)]
       ELSE IF propertyName = Undefined
       THEN IF MapHas(maps.gro, objectName) THEN maps
            ELSE [maps EXCEPT !.gro = MapSet(maps.gro, objectName, value)]
       ELSE LET inner == IF MapHas(maps.rp, objectName)
                         THEN maps.rp[objectName] ELSE EmptyMap
            IN IF MapHas(inner, propertyName) THEN maps
               ELSE [maps EXCEPT !.rp =
                        MapSet(maps.rp, objectName, MapSet(inner, propertyName, value))]

\* variant: the object-only branch writes into the map of the property-only branch
setOptionWrongMap(maps, option) ==
    LET objectName == option.object
        propertyName == option.property
        value == [message |-> option.message]
    IN IF objectName = Undefined
       THEN [maps EXCEPT !.grp = MapSet(maps.grp, propertyName, value)]
       ELSE IF propertyName = Undefined
       THEN [maps EXCEPT !.grp = MapSet(maps.grp, objectName, value)]
       ELSE LET inner == IF MapHas(maps.rp, objectName)
                         THEN maps.rp[objectName] ELSE EmptyMap
            IN [maps EXCEPT !.rp =
                    MapSet(maps.rp, objectName, MapSet(inner, propertyName, value))]

\* the body of restrictedCalls.forEach: one option into the three maps
setOption(maps, option) ==
    LET objectName == option.object
        propertyName == option.property
        value == [message |-> option.message]
    IN IF objectName = Undefined
       THEN [maps EXCEPT !.grp = MapSet(maps.grp, propertyName, value)]
       ELSE IF propertyName = Undefined
       THEN [maps EXCEPT !.gro = MapSet(maps.gro, objectName, value)]
       ELSE LET inner == IF MapHas(maps.rp, objectName)
                         THEN maps.rp[objectName] ELSE EmptyMap
            IN [maps EXCEPT !.rp =
                    MapSet(maps.rp, objectName, MapSet(inner, propertyName, value))]

RECURSIVE forEachOption(_, _)
forEachOption(restrictedCalls, maps) ==
    IF restrictedCalls = <<>> THEN maps
    ELSE forEachOption(Tail(restrictedCalls), setOption(maps, Head(restrictedCalls)))

\* variant: the early return for an empty option list is missing
visitorKeysNoEarlyReturn(rev, restrictedCalls) ==
    IF rev = 1
    THEN {"MemberExpression", "VariableDeclarator", "AssignmentExpression",
          "AssignmentPattern", "ArrowFunctionExpression"}
    ELSE IF rev = 2
    THEN {"MemberExpression", "ObjectPattern"}
    ELSE {"MemberExpression", "VariableDeclarator", "AssignmentExpression",
          "AssignmentPattern"}

\* visitor keys of the object each revision's create returns
visitorKeys(rev, restrictedCalls) ==
    IF Len(restrictedCalls) = 0 THEN {}
    ELSE IF rev = 1
         THEN {"MemberExpression", "VariableDeclarator", "AssignmentExpression",
               "AssignmentPattern", "ArrowFunctionExpression"}
         ELSE IF rev = 2
         THEN {"MemberExpression", "ObjectPattern"}
         ELSE {"MemberExpression", "VariableDeclarator", "AssignmentExpression",
               "AssignmentPattern"}

\* ------------------------------------------------------------ the matcher
RECURSIVE matchLoop(_, _, _)
\* propertyNames.forEach(x => { if (mapName.has(x)) arr.push({name: x, ...}) })
matchLoop(mapName, propertyNames, arr) ==
    IF propertyNames = <<>> THEN arr
    ELSE LET x == Head(propertyNames)
         IN matchLoop(mapName, Tail(propertyNames),
                IF MapHas(mapName, x)
                THEN Append(arr, [name |-> x, message |-> mapName[x].message])
                ELSE arr)

fun(mapName, propertyNames) ==
    LET arr == matchLoop(mapName, propertyNames, <<>>)
    IN IF Len(arr) = 0 THEN JsUndefined ELSE JsArray(arr)

getMatchingProperties(restricted, propertyNames) ==
    LET matchedProperties == matchLoop(restricted, propertyNames, <<>>)
    IN IF Len(matchedProperties) = 0 THEN JsFalse ELSE JsArray(matchedProperties)

\* props.message ? ` ${props.message}` : ""
messageSuffix(message) ==
    IF message = Undefined \/ message = "" THEN "" ELSE " " \o message

\* propertyName[0] of a JavaScript array
firstItem(items) == IF Len(items) = 0 THEN Undefined ELSE items[1]

reportScoped(node, objectName, matchedObjectProperty) ==
    [i \in 1..Len(matchedObjectProperty) |->
        [node |-> node, messageId |-> "restrictedObjectProperty",
         objectName |-> objectName,
         propertyName |-> matchedObjectProperty[i].name,
         message |-> messageSuffix(matchedObjectProperty[i].message)]]

reportGlobalProperty(node, globalMatchedProperty) ==
    [i \in 1..Len(globalMatchedProperty) |->
        [node |-> node, messageId |-> "restrictedProperty",
         objectName |-> Undefined,
         propertyName |-> globalMatchedProperty[i].name,
         message |-> messageSuffix(globalMatchedProperty[i].message)]]

reportGlobalObject(node, objectName, propertyName, globalMatchedObject) ==
    <<[node |-> node, messageId |-> "restrictedObjectProperty",
       objectName |-> objectName,
       propertyName |-> firstItem(propertyName),
       message |-> messageSuffix(globalMatchedObject.message)]>>

\* the if / else-if chain over the three lookups
chooseReports(node, objectName, propertyName, matchedObjectProperty, globalMatchedProperty, hasGlobalMatchedObject) ==
    IF Truthy(matchedObjectProperty)
    THEN reportScoped(node, objectName, matchedObjectProperty.items)
    ELSE IF Truthy(globalMatchedProperty)
    THEN reportGlobalProperty(node, globalMatchedProperty.items)
    ELSE IF hasGlobalMatchedObject
    THEN reportGlobalObject(node, objectName, propertyName.items,
                            globallyRestrictedObjects[objectName])
    ELSE <<>>

\* revision 1; the result is the sequence of context.report calls
checkPropertyAccess(node, objectName, propertyName) ==
    IF propertyName.tag = "null" THEN <<>>
    ELSE LET hasMatchedObject == MapHas(restrictedProperties, objectName)
             matchedObjectProperty ==
                 IF hasMatchedObject
                 THEN fun(restrictedProperties[objectName], propertyName.items)
                 ELSE JsUndefined
             hasGlobalMatchedObject == MapHas(globallyRestrictedObjects, objectName)
             globalMatchedProperty ==
                 fun(globallyRestrictedProperties, propertyName.items)
         IN chooseReports(node, objectName, propertyName, matchedObjectProperty,
                          globalMatchedProperty, hasGlobalMatchedObject)

\* revision 2
checkPropertyAccessRev2(node, objectName, propertyName) ==
    IF propertyName.tag = "null" THEN <<>>
    ELSE LET hasMatchedObject == MapHas(restrictedProperties, objectName)
             matchedObjectProperty ==
                 IF hasMatchedObject
                 THEN getMatchingProperties(restrictedProperties[objectName],
                                            propertyName.items)
                 ELSE JsFalse
             hasGlobalMatchedObject == MapHas(globallyRestrictedObjects, objectName)
             globalMatchedProperty ==
                 getMatchingProperties(globallyRestrictedProperties, propertyName.items)
         IN chooseReports(node, objectName, propertyName, matchedObjectProperty,
                          globalMatchedProperty, hasGlobalMatchedObject)

\* one context.report call of revision 3 for a bare property name
reportOne(node, messageId, objectName, propertyName, matched) ==
    <<[node |-> node, messageId |-> messageId, objectName |-> objectName,
       propertyName |-> propertyName,
       message |-> messageSuffix(matched.message)]>>

\* how a call ends: with its context.report calls, or in a TypeError
Completes(rs) == [reports |-> rs, thrown |-> FALSE]
ThrowsTypeError == [reports |-> <<>>, thrown |-> TRUE]

\* revision 3 (src/unnamed/part_000).  propertyName is null, a string, or an
\* array; the handlers of this revision pass null or a string.  The
\* whole-object restriction is looked up only when the object has no scoped
\* map, and is then tried before the global-property restriction.  With an
\* array and a whole-object match, the for-of of line 153 runs over the stored
\* object, which is not iterable: a TypeError before any report.
checkPropertyAccessRev3(node, objectName, propertyName) ==
    IF propertyName.tag = "null" THEN Completes(<<>>)
    ELSE LET isArray == propertyName.tag = "array"
             hasMatchedObject == MapHas(restrictedProperties, objectName)
             matchedObjectProperty ==
                 IF hasMatchedObject
                 THEN IF isArray
                      THEN JsArray(matchLoop(restrictedProperties[objectName],
                                             propertyName.items, <<>>))
                      ELSE MapGet(restrictedProperties[objectName],
                                  propertyName.items[1])
                 ELSE MapGet(globallyRestrictedObjects, objectName)
             globalMatchedProperty ==
                 IF isArray
                 THEN JsArray(matchLoop(globallyRestrictedProperties,
                                        propertyName.items, <<>>))
                 ELSE MapGet(globallyRestrictedProperties, propertyName.items[1])
         IN IF Truthy(matchedObjectProperty)
            THEN IF isArray
                 THEN IF matchedObjectProperty.tag = "array"
                      THEN Completes(reportScoped(node, objectName,
                                                  matchedObjectProperty.items))
                      ELSE ThrowsTypeError
                 ELSE Completes(reportOne(node, "restrictedObjectProperty", objectName,
                                          propertyName.items[1],
                                          matchedObjectProperty.items[1]))
            ELSE IF Truthy(globalMatchedProperty)
            THEN IF isArray
                 THEN Completes(reportGlobalProperty(node, globalMatchedProperty.items))
                 ELSE Completes(reportOne(node, "restrictedProperty", Undefined,
                                          propertyName.items[1],
                                          globalMatchedProperty.items[1]))
            ELSE Completes(<<>>)

RECURSIVE forEachProperty(_, _, _)
\* properties.forEach(property => checkPropertyAccess(anchor, objectName, name)):
\* the reports of the calls, one call for each name, in order; a call that
\* throws ends the loop, and the reports made before it stay
forEachProperty(anchor, objectName, names) ==
    IF names = <<>> THEN Completes(<<>>)
    ELSE LET first == checkPropertyAccessRev3(anchor, objectName, JsName(Head(names)))
             rest == forEachProperty(anchor, objectName, Tail(names))
         IN IF first.thrown THEN first
            ELSE [reports |-> first.reports \o rest.reports, thrown |-> rest.thrown]

\* ------------------------------------------------------------------ actions
Init ==
    /\ options \in OptionLists
    /\ revision \in {1, 2, 3}
    /\ pc = "loaded"
    /\ handlers = {}
    /\ restrictedProperties = EmptyMap
    /\ globallyRestrictedObjects = EmptyMap
    /\ globallyRestrictedProperties = EmptyMap
    /\ visit = NoVisit
    /\ reports = <<>>
    /\ thrown = FALSE

create ==
    /\ pc = "loaded"
    /\ pc' = "traversing"
    /\ LET restrictedCalls == options
           maps == IF Len(restrictedCalls) = 0 THEN NoMaps
                   ELSE forEachOption(restrictedCalls, NoMaps)
       IN /\ restrictedProperties' = maps.rp
          /\ globallyRestrictedObjects' = maps.gro
          /\ globallyRestrictedProperties' = maps.grp
          /\ handlers' = visitorKeys(revision, restrictedCalls)
    /\ UNCHANGED <<options, revision, visit, reports, thrown>>

\* variant: the lookup of the object's scoped map creates the map when it is missing
FrameAllocating ==
    /\ pc' = IF thrown' THEN "crashed" ELSE "returned"
    /\ restrictedProperties' =
        IF visit'.called /\ ~MapHas(restrictedProperties, visit'.objectName)
        THEN MapSet(restrictedProperties, visit'.objectName, EmptyMap)
        ELSE restrictedProperties
    /\ UNCHANGED <<options, revision, handlers,
                   globallyRestrictedObjects, globallyRestrictedProperties>>

\* a handler returns to the host (or ends in the TypeError it ran into) and
\* leaves the rule's own state alone
Frame ==
    /\ pc' = IF thrown' THEN "crashed" ELSE "returned"
    /\ UNCHANGED <<options, revision, handlers, restrictedProperties,
                   globallyRestrictedObjects, globallyRestrictedProperties>>

\* what the member-access handler passes to checkPropertyAccess
memberPropertyName(node) ==
    JsArray(<<getStaticPropertyName(node.computed, node.property.type,
                                    node.property.name)>>)

MemberExpression ==
    /\ pc = "traversing"
    /\ "MemberExpression" \in handlers
    /\ \E node \in MemberNodes :
        LET objectName == node.object.name
            propertyName == memberPropertyName(node)
            r == IF revision = 1
                 THEN Completes(checkPropertyAccess("node", objectName, propertyName))
                 ELSE IF revision = 2
                 THEN Completes(checkPropertyAccessRev2("node", objectName, propertyName))
                 ELSE checkPropertyAccessRev3("node", objectName,
                                              JsName(propertyName.items[1]))
        IN /\ reports' = r.reports
           /\ thrown' = r.thrown
           /\ visit' = [handler |-> "MemberExpression", called |-> TRUE,
                        objectName |-> objectName, propertyName |-> propertyName,
                        sourceType |-> node.object.type, targetType |-> "none",
                        parentType |-> "none", node |-> node]
    /\ Frame


\* what a destructuring handler does with its source and target nodes; the
\* result is <<called, objectName, propertyName, reports, thrown>>
destructure(anchor, source, target) ==
    IF source.type = "Identifier"
    THEN LET objectName == source.name
         IN IF target.type = "ObjectPattern"
            THEN LET propertyName == JsArray(getAllProperties(target.properties))
                 IN <<TRUE, objectName, propertyName,
                      checkPropertyAccess(anchor, objectName, propertyName), FALSE>>
            ELSE <<FALSE, objectName, JsUndefined, <<>>, FALSE>>
    ELSE <<FALSE, Undefined, JsUndefined, <<>>, FALSE>>

\* the same in revision 3: one checkPropertyAccess call for each property of
\* the pattern, with the name the handler extracts from it (names[i] is the
\* name of property i); the call is made also for a name that is null
destructureEach(anchor, source, target, names) ==
    IF source.type = "Identifier"
    THEN LET objectName == source.name
         IN IF target.type = "ObjectPattern"
            THEN LET r == forEachProperty(anchor, objectName, names)
                 IN <<Len(names) > 0, objectName, JsArray(names), r.reports, r.thrown>>
            ELSE <<FALSE, objectName, JsUndefined, <<>>, FALSE>>
    ELSE <<FALSE, Undefined, JsUndefined, <<>>, FALSE>>

\* node.init && node.init.type === "Identifier"; reports on node.id
VariableDeclarator ==
    /\ pc = "traversing"
    /\ "VariableDeclarator" \in handlers
    /\ \E node \in VariableDeclaratorNodes :
        LET r == IF node.init.type = "null"
                 THEN <<FALSE, Undefined, JsUndefined, <<>>, FALSE>>
                 ELSE IF revision = 3
                 THEN destructureEach("node.id", node.init, node.id,
                        [i \in DOMAIN node.id.properties |->
                            anotherOne(node.id.properties[i])])
                 ELSE destructure("node.id", node.init, node.id)
        IN /\ reports' = r[4]
           /\ thrown' = r[5]
           /\ visit' = [handler |-> "VariableDeclarator", called |-> r[1],
                        objectName |-> r[2], propertyName |-> r[3],
                        sourceType |-> node.init.type, targetType |-> node.id.type,
                        parentType |-> "none", node |-> node]
    /\ Frame

\* result of checkDestructuringAssignment(node); reports on node.left
checkDestructuringAssignment(node) ==
    IF revision = 3
    THEN destructureEach("node.left", node.right, node.left,
            [i \in DOMAIN node.left.properties |->
                getStaticPropertyNameOf(node.left.properties[i])])
    ELSE destructure("node.left", node.right, node.left)

AssignmentExpression ==
    /\ pc = "traversing"
    /\ "AssignmentExpression" \in handlers
    /\ \E node \in AssignmentNodes :
        LET r == checkDestructuringAssignment(node)
        IN /\ reports' = r[4]
           /\ thrown' = r[5]
           /\ visit' = [handler |-> "AssignmentExpression", called |-> r[1],
                        objectName |-> r[2], propertyName |-> r[3],
                        sourceType |-> node.right.type, targetType |-> node.left.type,
                        parentType |-> "none", node |-> node]
    /\ Frame

AssignmentPattern ==
    /\ pc = "traversing"
    /\ "AssignmentPattern" \in handlers
    /\ \E node \in AssignmentPatternNodes :
        LET r == checkDestructuringAssignment(node)
        IN /\ reports' = r[4]
           /\ thrown' = r[5]
           /\ visit' = [handler |-> "AssignmentPattern", called |-> r[1],
                        objectName |-> r[2], propertyName |-> r[3],
                        sourceType |-> node.right.type, targetType |-> node.left.type,
                        parentType |-> "none", node |-> node]
    /\ Frame

\* walks the parameters and collects names; reports nothing
ArrowFunctionExpression ==
    /\ pc = "traversing"
    /\ "ArrowFunctionExpression" \in handlers
    /\ \E params \in ArrowNodes :
        /\ reports' = <<>>
        /\ visit' = [handler |-> "ArrowFunctionExpression", called |-> FALSE,
                     objectName |-> Undefined, propertyName |-> JsUndefined,
                     sourceType |-> "none",
                     targetType |-> IF Len(params) = 0 THEN "none"
                                    ELSE params[Len(params)].type,
                     parentType |-> "none", node |-> params]
    /\ thrown' = FALSE
    /\ Frame

\* revision 2: reading node.parent.init.name throws when init is null
objectPatternThrows(parent) ==
    parent.type = "VariableDeclarator" /\ parent.init.type = "null"

\* the objectName the revision 2 handler computes (and then drops)
objectPatternName(parent) ==
    IF parent.type = "VariableDeclarator"
    THEN parent.init.name
    ELSE IF parent.type \in {"AssignmentExpression", "AssignmentPattern"}
            /\ parent.right.type = "Identifier"
    THEN parent.right.name
    ELSE ""

\* the object patterns the ObjectPattern callback is called with: the pattern's
\* properties (which the handler does not read) and its parent
ObjectPatternVisits == [properties : PatternsUpTo(1), parent : ParentNodes]

ObjectPattern ==
    /\ "ObjectPattern" \in handlers
    /\ pc = "traversing"
    /\ \E node \in ObjectPatternVisits : LET parent == node.parent IN
        /\ thrown' = objectPatternThrows(parent)
        /\ pc' = IF objectPatternThrows(parent) THEN "crashed" ELSE "returned"
        /\ visit' = [handler |-> "ObjectPattern", called |-> FALSE,
                     objectName |-> IF objectPatternThrows(parent) THEN Undefined
                                    ELSE objectPatternName(parent),
                     propertyName |-> JsUndefined,
                     sourceType |-> IF parent.type = "VariableDeclarator"
                                    THEN parent.init.type ELSE parent.right.type,
                     targetType |-> "ObjectPattern",
                     parentType |-> parent.type, node |-> node]
    /\ reports' = <<>>
    /\ UNCHANGED <<options, revision, handlers, restrictedProperties,
                   globallyRestrictedObjects, globallyRestrictedProperties>>

\* the host traversal takes the reports and moves on to the next node
nextNode ==
    /\ pc = "returned"
    /\ pc' = "traversing"
    /\ visit' = NoVisit
    /\ reports' = <<>>
    /\ UNCHANGED <<options, revision, handlers, restrictedProperties,
                   globallyRestrictedObjects, globallyRestrictedProperties, thrown>>

Next ==
    \/ create
    \/ MemberExpression
    \/ VariableDeclarator
    \/ AssignmentExpression
    \/ AssignmentPattern
    \/ ArrowFunctionExpression
    \/ ObjectPattern
    \/ nextNode

Spec == Init /\ [][Next]_vars


\* ======================================================= claims: vocabulary
Returned == pc = "returned"
\* a handler has just run checkPropertyAccess on the site (SiteObject, SiteNames)
Called == pc = "returned" /\ visit.called
SiteObject == visit.objectName
SiteNames == visit.propertyName.items

\* the configured entries, read from context.options
ScopedEntry(o, p) ==
    /\ o \in Names
    /\ p \in Props
    /\ \E i \in DOMAIN options : options[i].object = o /\ options[i].property = p
PropertyEntry(p) ==
    /\ p \in Props
    /\ \E i \in DOMAIN options : options[i].object = Undefined /\ options[i].property = p
ObjectEntry(o) ==
    /\ o \in Names
    /\ \E i \in DOMAIN options : options[i].object = o /\ options[i].property = Undefined

\* the suffix a diagnostic carries for the key (o, p): that of the last entry with the key
EntrySuffix(o, p) ==
    LET hits == {i \in DOMAIN options : options[i].object = o /\ options[i].property = p}
        last == CHOOSE i \in hits : \A j \in hits : j <= i
    IN IF options[last].message = Undefined THEN "" ELSE " " \o options[last].message

AnyScoped == \E k \in DOMAIN SiteNames : ScopedEntry(SiteObject, SiteNames[k])
AnyGlobalProperty == \E k \in DOMAIN SiteNames : PropertyEntry(SiteNames[k])
\* the object has scoped restrictions, on some property
HasScopedMap(o) == \E p \in Props : ScopedEntry(o, p)
\* no name of the site is statically known / every name is (and there is one)
AllUnknown == \A k \in DOMAIN SiteNames : SiteNames[k] = Null
AllKnown == SiteNames # <<>> /\ \A k \in DOMAIN SiteNames : SiteNames[k] # Null

\* the tier a diagnostic belongs to, and the tier the site should be served from
TierOf(r) ==
    IF r.messageId = "restrictedProperty" THEN "globalProperty"
    ELSE IF ScopedEntry(r.objectName, r.propertyName) THEN "scoped"
    ELSE "globalObject"
TierFor(o, names) ==
    IF \E k \in DOMAIN names : ScopedEntry(o, names[k]) THEN "scoped"
    ELSE IF \E k \in DOMAIN names : PropertyEntry(names[k]) THEN "globalProperty"
    ELSE IF ObjectEntry(o) THEN "globalObject"
    ELSE "none"
SiteTier == TierFor(SiteObject, SiteNames)


\* ------------------------------------------------------------------- C1
\* the property names of each checkPropertyAccess call of the handler call:
\* revision 3 makes one call for each name, the others one call for the site
CallNames ==
    IF revision = 3 THEN {<<SiteNames[k]>> : k \in DOMAIN SiteNames} ELSE {SiteNames}
\* the diagnostics of the call made with these names
ReportsOfCall(names) ==
    IF revision = 3
    THEN {reports[j] : j \in {i \in DOMAIN reports : reports[i].propertyName = names[1]}}
    ELSE {reports[j] : j \in DOMAIN reports}

\* C1: all diagnostics of one checkPropertyAccess call come from one tier, the
\* first that matches in the order scoped > global-property > global-object;
\* a call with a known property name emits none exactly when no tier matches.
C1_SingleTier ==
    Called =>
        \A names \in CallNames :
            /\ \A r \in ReportsOfCall(names) : TierOf(r) = TierFor(SiteObject, names)
            /\ (\E k \in DOMAIN names : names[k] # Null) =>
                ((ReportsOfCall(names) = {}) <=> (TierFor(SiteObject, names) = "none"))

\* ------------------------------------------------------------------- C2
\* C2, for the accesses the precedence of the tiers leaves to the whole-object
\* tier: on an object named by an object-only entry, an access with known
\* property names, none of which has a scoped restriction on the object or a
\* global-property restriction, yields exactly one diagnostic, a
\* restrictedObjectProperty for the first property name.
C2_WholeObjectOnce ==
    (Called /\ ObjectEntry(SiteObject) /\ AllKnown
        /\ ~AnyScoped /\ ~AnyGlobalProperty) =>
        /\ Len(reports) = 1
        /\ reports[1].messageId = "restrictedObjectProperty"
        /\ reports[1].objectName = SiteObject
        /\ reports[1].propertyName = SiteNames[1]
        /\ reports[1].message = EntrySuffix(SiteObject, Undefined)

\* ------------------------------------------------------------------- C3
\* C3, for the accesses the precedence of the tiers leaves to the
\* global-property tier: unless a name of the same site has a scoped restriction
\* on the object, every accessed name with a property-only entry is reported as
\* restrictedProperty, also on an object that has scoped restrictions or is
\* wholly restricted.
C3_GlobalPropertyReported ==
    (Called /\ ~AnyScoped) =>
        \A k \in DOMAIN SiteNames :
            PropertyEntry(SiteNames[k]) =>
                \E j \in DOMAIN reports :
                    /\ reports[j].messageId = "restrictedProperty"
                    /\ reports[j].propertyName = SiteNames[k]
                    /\ reports[j].message = EntrySuffix(Undefined, SiteNames[k])

\* ------------------------------------------------------------------- C4
\* C4: a computed member access with a non-literal key (`foo[bar]`) never
\* produces a diagnostic, whatever is configured.
C4_ComputedNeverReports ==
    (Returned /\ visit.handler = "MemberExpression"
        /\ visit.node.computed /\ visit.node.property.type = "Identifier") =>
        reports = <<>>

\* ------------------------------------------------------------------- C5
\* C5, for the access sites whose property names are all unknown (a computed
\* key that is not a literal, a rest element, an empty pattern): such a site
\* emits no diagnostic, whatever is configured.
C5_UnknownNamesNoDiagnostic ==
    (Called /\ AllUnknown) => reports = <<>>

\* ------------------------------------------------------------------- C6
PlainProperty(p) == [type |-> "Property", computed |-> FALSE, key |-> p]

\* `const {p} = o;`
IsDeclarationOf(o, p) ==
    /\ visit.handler = "VariableDeclarator"
    /\ visit.node = [id |-> ObjectPatternNode(<<PlainProperty(p)>>), init |-> Identifier(o)]
\* `({p} = o);` as an assignment expression or as an assignment pattern
IsAssignmentOf(o, p) ==
    /\ visit.handler \in {"AssignmentExpression", "AssignmentPattern"}
    /\ visit.node = [left |-> ObjectPatternNode(<<PlainProperty(p)>>), right |-> Identifier(o)]
\* `o.p`
IsMemberAccessOf(o, p) ==
    /\ visit.handler = "MemberExpression"
    /\ visit.node = [object |-> Identifier(o), computed |-> FALSE,
                     property |-> [type |-> "Identifier", name |-> p]]

\* the pattern `{p}` of `const {p} = o;` or of `({p} = o);`, as the ObjectPattern
\* callback sees it
IsPatternOf(o, p) ==
    /\ visit.handler = "ObjectPattern"
    /\ visit.node.properties = <<PlainProperty(p)>>
    /\ \/ visit.node.parent.type = "VariableDeclarator"
          /\ visit.node.parent.init = Identifier(o)
       \/ visit.node.parent.type \in {"AssignmentExpression", "AssignmentPattern"}
          /\ visit.node.parent.right = Identifier(o)

OneScopedDiagnostic(o, p) ==
    /\ Len(reports) = 1
    /\ reports[1].messageId = "restrictedObjectProperty"
    /\ reports[1].objectName = o
    /\ reports[1].propertyName = p
    /\ reports[1].message = EntrySuffix(o, p)

\* C6: under a scoped restriction on o.p, the shapes `const {p} = o;`,
\* `({p} = o);` and `o.p` each produce exactly one diagnostic, a
\* restrictedObjectProperty with propertyName p, whichever handler the active
\* revision registers for the shape (VariableDeclarator, AssignmentExpression,
\* AssignmentPattern, ObjectPattern, MemberExpression).
C6_DestructuringEquivalence ==
    \A o \in Names, p \in Props :
        (Returned /\ ScopedEntry(o, p)
            /\ (IsDeclarationOf(o, p) \/ IsAssignmentOf(o, p) \/ IsMemberAccessOf(o, p)
                    \/ IsPatternOf(o, p))) =>
            OneScopedDiagnostic(o, p)

\* ------------------------------------------------------------------- C7
\* C7: every handler call ends normally; none throws, in particular not for an
\* object pattern whose parent declarator has no initializer.
C7_NothingThrows ==
    ~thrown /\ pc # "crashed"

\* ------------------------------------------------------------------- C8
Strip(r) ==
    [messageId |-> r.messageId, objectName |-> r.objectName,
     propertyName |-> r.propertyName, message |-> r.message]
ScopedReport(o, x) ==
    [messageId |-> "restrictedObjectProperty", objectName |-> o,
     propertyName |-> x, message |-> EntrySuffix(o, x)]
PropertyReport(x) ==
    [messageId |-> "restrictedProperty", objectName |-> Undefined,
     propertyName |-> x, message |-> EntrySuffix(Undefined, x)]

\* what one property name yields when queried alone against the object
AloneMatches(o, x) ==
    IF ScopedEntry(o, x) THEN <<ScopedReport(o, x)>>
    ELSE IF PropertyEntry(x) THEN <<PropertyReport(x)>>
    ELSE <<>>
AloneScoped(o, x) == IF ScopedEntry(o, x) THEN <<ScopedReport(o, x)>> ELSE <<>>
AloneProperty(x) == IF PropertyEntry(x) THEN <<PropertyReport(x)>> ELSE <<>>

RECURSIVE ConcatAlone(_, _)
ConcatAlone(o, names) ==
    IF names = <<>> THEN <<>>
    ELSE AloneMatches(o, Head(names)) \o ConcatAlone(o, Tail(names))
RECURSIVE ConcatScoped(_, _)
ConcatScoped(o, names) ==
    IF names = <<>> THEN <<>>
    ELSE AloneScoped(o, Head(names)) \o ConcatScoped(o, Tail(names))
RECURSIVE ConcatProperty(_)
ConcatProperty(names) ==
    IF names = <<>> THEN <<>>
    ELSE AloneProperty(Head(names)) \o ConcatProperty(Tail(names))

NotWholeObject(r) == TierOf(r) # "globalObject"
\* the scoped and global-property diagnostics of the call, without their anchor
NamedMatches == [k \in DOMAIN SelectSeq(reports, NotWholeObject) |->
                    Strip(SelectSeq(reports, NotWholeObject)[k])]

\* C8: precedence is decided for each property name on its own; the
\* scoped and global-property matches of a site are the concatenation, in input
\* order, of what each name yields alone.
C8_PerNameUnion ==
    Called => NamedMatches = ConcatAlone(SiteObject, SiteNames)

\* ------------------------------------------------------------------- C9
\* C9: when the scoped tier does not match and several accessed names have a
\* global-property restriction, one restrictedProperty diagnostic is emitted for
\* each, in pattern order, with its own entry's message; only the global-object
\* tier reports once.
C9_EveryGlobalProperty ==
    Called =>
        /\ (~AnyScoped /\ AnyGlobalProperty) =>
            LET hits == SelectSeq(SiteNames, PropertyEntry)
            IN /\ Len(reports) = Len(hits)
               /\ \A j \in DOMAIN reports :
                    /\ reports[j].messageId = "restrictedProperty"
                    /\ reports[j].propertyName = hits[j]
                    /\ reports[j].message = EntrySuffix(Undefined, hits[j])
        /\ (SiteTier = "globalObject" /\ ~AllUnknown) => Len(reports) = 1

\* ------------------------------------------------------------------ C10
\* C10: with an empty option list create registers no visitor callback, so no
\* handler ever runs and nothing is reported; with a non-empty list it
\* registers callbacks.
C10_EmptyOptionsNoHandlers ==
    pc # "loaded" =>
        /\ Len(options) = 0 =>
            /\ handlers = {}
            /\ pc = "traversing"
            /\ visit.handler = "none"
            /\ reports = <<>>
        /\ Len(options) > 0 => handlers # {}

\* create has returned for an empty option list
C10_Witness ==
    /\ pc = "traversing"
    /\ Len(options) = 0
    /\ handlers = {}


\* ------------------------------------------------------------------ C11
\* the keys each structure should hold, read from the configured entries
PropertyOnlyKeys ==
    {options[i].property : i \in {j \in DOMAIN options : options[j].object = Undefined}}
ObjectOnlyKeys ==
    {options[i].object :
        i \in {j \in DOMAIN options :
                options[j].object # Undefined /\ options[j].property = Undefined}}
ScopedObjects ==
    {options[i].object :
        i \in {j \in DOMAIN options :
                options[j].object # Undefined /\ options[j].property # Undefined}}
ScopedKeys(o) ==
    {options[i].property :
        i \in {j \in DOMAIN options :
                options[j].object = o /\ options[j].property # Undefined}}

\* C11: after create, an entry without object is a key of
\* globallyRestrictedProperties, an entry with object and without property is a
\* key of globallyRestrictedObjects, an entry with both is a key of the nested
\* map of its object in restrictedProperties, and the three structures hold no
\* other key.
C11_BuildPlacesEntries ==
    pc # "loaded" =>
        /\ DOMAIN globallyRestrictedProperties = PropertyOnlyKeys
        /\ DOMAIN globallyRestrictedObjects = ObjectOnlyKeys
        /\ DOMAIN restrictedProperties = ScopedObjects
        /\ \A o \in DOMAIN restrictedProperties :
            DOMAIN restrictedProperties[o] = ScopedKeys(o)

\* create has built the maps from an object-only and a scoped entry of one object
C11_Witness ==
    /\ pc = "traversing"
    /\ Len(options) = 2
    /\ ObjectOnlyKeys = {"foo"}
    /\ ScopedObjects = {"foo"}
    /\ DOMAIN globallyRestrictedObjects = {"foo"}
    /\ DOMAIN restrictedProperties = {"foo"}
    /\ globallyRestrictedProperties = EmptyMap


\* ------------------------------------------------------------------ C12
\* what the configured entries alone determine for the site, without the anchor
ObjectReport(o, x) ==
    [messageId |-> "restrictedObjectProperty", objectName |-> o,
     propertyName |-> x, message |-> EntrySuffix(o, Undefined)]

\* revision 3, one call with the bare name x: the whole-object entry counts only
\* for an object without scoped entries, and then before the property-only entry
ExpectedEach(o, x) ==
    IF x = Null THEN <<>>
    ELSE IF HasScopedMap(o)
    THEN (IF ScopedEntry(o, x) THEN <<ScopedReport(o, x)>> ELSE AloneProperty(x))
    ELSE IF ObjectEntry(o) THEN <<ObjectReport(o, x)>>
    ELSE AloneProperty(x)
RECURSIVE ConcatEach(_, _)
ConcatEach(o, names) ==
    IF names = <<>> THEN <<>>
    ELSE ExpectedEach(o, Head(names)) \o ConcatEach(o, Tail(names))

ExpectedMatches ==
    IF revision = 3 THEN ConcatEach(SiteObject, SiteNames)
    ELSE IF AnyScoped THEN ConcatScoped(SiteObject, SiteNames)
    ELSE IF AnyGlobalProperty THEN ConcatProperty(SiteNames)
    ELSE IF ObjectEntry(SiteObject)
    THEN <<ObjectReport(SiteObject, IF SiteNames = <<>> THEN Undefined ELSE SiteNames[1])>>
    ELSE <<>>
StrippedReports == [k \in DOMAIN reports |-> Strip(reports[k])]

\* C12: once create has returned, no step (no handler call, whatever the node)
\* changes restrictedProperties, globallyRestrictedObjects or
\* globallyRestrictedProperties, and the diagnostics of a handler call are those
\* the configured entries determine for its access site under the active
\* revision, whatever was visited before.
C12_ModelReadOnly ==
    /\ [][pc # "loaded" =>
            UNCHANGED <<restrictedProperties, globallyRestrictedObjects,
                        globallyRestrictedProperties>>]_vars
    /\ [](Called => StrippedReports = ExpectedMatches)

\* a handler has reported on a site of an object that has no scoped map, and the
\* maps are still the ones create built
C12_Witness ==
    /\ Called
    /\ reports # <<>>
    /\ ~MapHas(restrictedProperties, SiteObject)
    /\ DOMAIN restrictedProperties = ScopedObjects
    /\ DOMAIN globallyRestrictedObjects = ObjectOnlyKeys
    /\ DOMAIN globallyRestrictedProperties = PropertyOnlyKeys


\* ------------------------------------------------------------------ C13
\* C13: when the object has scoped restrictions but none on an accessed name, no
\* accessed name has a global-property restriction, the object has an
\* object-only entry and a property name is known, exactly one diagnostic is
\* emitted, a
\* restrictedObjectProperty of the global-object tier: scoped restrictions that
\* do not match do not suppress it.
C13_UnmatchedScopedMapFallsThrough ==
    (Called /\ HasScopedMap(SiteObject) /\ ~AnyScoped /\ ~AnyGlobalProperty
        /\ ObjectEntry(SiteObject) /\ ~AllUnknown) =>
        /\ Len(reports) = 1
        /\ reports[1].messageId = "restrictedObjectProperty"
        /\ reports[1].objectName = SiteObject
        /\ TierOf(reports[1]) = "globalObject"
        /\ Len(SiteNames) >= 1 => reports[1].propertyName = SiteNames[1]

\* ------------------------------------------------------------------ C14
\* two entries address the same key (and so differ in message)
SameKey(i, j) ==
    /\ options[i].object = options[j].object
    /\ options[i].property = options[j].property
DuplicateKey == \E i, j \in DOMAIN options : i < j /\ SameKey(i, j)

\* the message create stored for the key of entry i
StoredMessage(i) ==
    LET e == options[i]
    IN IF e.object = Undefined THEN globallyRestrictedProperties[e.property].message
       ELSE IF e.property = Undefined THEN globallyRestrictedObjects[e.object].message
       ELSE restrictedProperties[e.object][e.property].message

\* the suffix of the last entry with the key a diagnostic was matched by
KeySuffix(r) ==
    IF TierOf(r) = "scoped" THEN EntrySuffix(r.objectName, r.propertyName)
    ELSE IF TierOf(r) = "globalProperty" THEN EntrySuffix(Undefined, r.propertyName)
    ELSE EntrySuffix(r.objectName, Undefined)

\* the accessed names (positions in the site) that get a diagnostic of their own
MatchedPositions ==
    IF revision = 3
    THEN {k \in DOMAIN SiteNames : ExpectedEach(SiteObject, SiteNames[k]) # <<>>}
    ELSE IF AnyScoped
    THEN {k \in DOMAIN SiteNames : ScopedEntry(SiteObject, SiteNames[k])}
    ELSE {k \in DOMAIN SiteNames : PropertyEntry(SiteNames[k])}

\* C14: when two entries address the same key, create keeps the message of the
\* later one, and an access matching the key yields one diagnostic per accessed
\* property name that is reported (one in all where the global-object tier
\* serves the whole site), with the later entry's message, never one per entry.
C14_LaterEntryWins ==
    /\ pc # "loaded" =>
        \A i, j \in DOMAIN options :
            (i < j /\ SameKey(i, j)) =>
                \E l \in DOMAIN options :
                    /\ SameKey(l, j)
                    /\ \A n \in DOMAIN options : SameKey(n, j) => n <= l
                    /\ StoredMessage(i) = options[l].message
    /\ (Called /\ DuplicateKey) =>
        /\ \A k \in DOMAIN reports : reports[k].message = KeySuffix(reports[k])
        /\ Len(reports) = IF revision # 3 /\ SiteTier = "globalObject" THEN 1
                          ELSE Cardinality(MatchedPositions)

\* an access matched by a key that two entries with different messages address
C14_Witness ==
    /\ Called
    /\ DuplicateKey
    /\ Len(SiteNames) = 1
    /\ Len(reports) = 1
    /\ \E i, j \in DOMAIN options :
        /\ i < j
        /\ SameKey(i, j)
        /\ options[i].message # options[j].message
        /\ options[j].message # Undefined
        /\ reports[1].message = " " \o options[j].message
        /\ (options[j].property # Undefined => reports[1].propertyName = options[j].property)

====
